---- MODULE Spec2Model ----
(***************************************************************************)
(* Model of skyplane.api.dataplane: the Dataplane lifecycle controller     *)
(* (provision / deprovision / auto_deprovision / queue_copy / queue_sync / *)
(* run_async / run) as a state machine over the fields of one Dataplane.   *)
(* Each thread of the client program is at a position (pc) inside at most  *)
(* one API call; the statements of a call that other threads can observe   *)
(* are separate steps.                                                     *)
(***************************************************************************)
EXTENDS Integers, Sequences, FiniteSets, TLC

(* ------------------------------ bounds --------------------------------- *)
\* provisioner.provision() executions (each mints a fresh fleet)
MaxCycles == 2
\* jobs queued over the whole run
MaxJobs == 3
\* trackers created over the whole run
MaxTrackers == 2
\* tasks of one batch provision that may yield no server
MaxFailedTasks == 1

(* ------------------------------ values --------------------------------- *)
Threads == {"client", "operator"}
\* the thread that queues and dispatches jobs (the single external caller of
\* queue_copy / queue_sync / run_async / run), and a second thread
Client == "client"
Operator == "operator"
NoThread == "nobody"
None == "None"

(* ----------------------------- topology -------------------------------- *)
\* Two ReplicationTopology values.  "A": 1 source gateway (aws:us-east-1),
\* 1 relay and 1 sink gateway (both gcp:us-west1).  "B": a chain of four
\* gateways in four regions.  Each has an object store node at either end.
Topologies == {"A", "B"}

\* region tags "<provider>:<region>" kept as <<provider, region>>
Region(n) ==
    CASE n \in {"a_obj_src", "a_src", "b_obj_src", "b_g1"} -> <<"aws", "us-east-1">>
      [] n \in {"a_relay", "a_sink", "a_obj_dst", "b_g3"} -> <<"gcp", "us-west1">>
      [] n = "b_g2" -> <<"azure", "eastus">>
      [] n \in {"b_g4", "b_obj_dst"} -> <<"gcp", "europe-west1">>

\* node.region.split(":")[0]
Provider(region) == region[1]

\* topology.gateway_nodes, in iteration order
gateway_nodes(T) ==
    IF T = "A" THEN <<"a_src", "a_relay", "a_sink">>
               ELSE <<"b_g1", "b_g2", "b_g3", "b_g4">>

GatewaySet(T) == {gateway_nodes(T)[i] : i \in 1..Len(gateway_nodes(T))}

\* isinstance(n, ReplicationTopologyGateway)
IsGateway(n) == n \in GatewaySet("A") \cup GatewaySet("B")

\* topology.get_outgoing_paths(node): the targets of the node's out-edges
get_outgoing_paths(n) ==
    CASE n = "a_src" -> {"a_relay"}
      [] n = "a_relay" -> {"a_sink"}
      [] n = "a_sink" -> {"a_obj_dst"}
      [] n = "b_g1" -> {"b_g2"}
      [] n = "b_g2" -> {"b_g3"}
      [] n = "b_g3" -> {"b_g4"}
      [] n = "b_g4" -> {"b_obj_dst"}
      [] OTHER -> {}

source_instances(T) == IF T = "A" THEN {"a_src"} ELSE {"b_g1"}
sink_instances(T) == IF T = "A" THEN {"a_sink"} ELSE {"b_g4"}

(* ------------------------------- state --------------------------------- *)
VARIABLES
    topology,          \* self.topology (fixed at construction)
    use_e2ee,          \* self.transfer_config.use_e2ee
    debug,             \* self.debug
    provisioned,       \* self.provisioned
    bound_nodes,       \* self.bound_nodes: dict gateway node -> server
    provisioning_lock, \* holder of self.provisioning_lock, or NoThread
    jobs_to_dispatch,  \* self.jobs_to_dispatch: reference to a list object
    heap,              \* the list objects: reference -> sequence of jobs
    pending_transfers, \* self.pending_transfers: list of tracker ids
    trackers,          \* tracker id -> [jobs: list reference, state]
    tasks,             \* provisioner: queued provisioning tasks (regions)
    cycle,             \* provisioner: number of batch provisions executed
    njobs,             \* job uuids handed out so far
    pc,                \* per thread: position inside its current call
    loc,               \* per thread: local variables of the current call
    call,              \* per thread: what the current call has done so far
    scope              \* per thread: state of its auto_deprovision scope

vars == <<topology, use_e2ee, debug, provisioned, bound_nodes, provisioning_lock,
          jobs_to_dispatch, heap, pending_transfers, trackers, tasks, cycle,
          njobs, pc, loc, call, scope>>

config == <<topology, use_e2ee, debug>>
dataplane == <<provisioned, bound_nodes, provisioning_lock>>
transfers == <<jobs_to_dispatch, heap, pending_transfers, trackers, njobs>>
provisioner == <<tasks, cycle>>


(* ------------------------------ helpers -------------------------------- *)
\* Python dict as a function whose DOMAIN is the set of keys
EmptyDict == [k \in {} |-> None]
Put(d, k, v) == [x \in DOMAIN d \cup {k} |-> IF x = k THEN v ELSE d[x]]
\* defaultdict(list) lookup
GetList(d, k) == IF k \in DOMAIN d THEN d[k] ELSE <<>>

\* compute.Server: the handle of a VM minted by batch provision number c for task i
Server(c, i, region) == [uuid |-> <<c, i>>, region_tag |-> region]
public_ip(server) == <<"public", server.uuid>>
private_ip(server) == <<"private", server.uuid>>

BlankLoc == [i |-> 0, servers_by_region |-> EmptyDict, gateway_bound_nodes |-> EmptyDict,
             e2ee_key_bytes |-> 0, jobs |-> {}, exc |-> None, tracker |-> 0]

\* the record of one API call: what it has done so far and how it ended
BlankCall == [kind |-> "none", sawProvisioned |-> FALSE, add_task |-> 0, init_global |-> 0,
              tasks_at_init |-> 0, logs |-> 0, after |-> {}, seen |-> EmptyDict, at |-> 0,
              queue |-> <<>>, result |-> <<>>,
              provision |-> 0, unserved |-> {}, bind |-> 0, flag |-> 0, started |-> EmptyDict,
              teardown |-> 0, live_undone |-> {}, errors |-> 0, interrupted |-> FALSE, snapshot |-> <<>>,
              joined |-> <<>>, undone |-> {}, created |-> 0, outcome |-> "running"]

BlankScope == [state |-> "none", entered |-> None, how |-> None, deprovisions |-> 0]

\* the name of the Dataplane object (self)
Self == "Dataplane"

\* the state of a Dataplane whose flag, registry and provisioner are as given
\* and on which no call is in progress
Quiescent(flag, registry, c) ==
    /\ provisioned = flag
    /\ bound_nodes = registry
    /\ provisioning_lock = NoThread
    /\ jobs_to_dispatch = 0
    /\ heap = [r \in {0} |-> <<>>]
    /\ pending_transfers = <<>>
    /\ trackers = <<>>
    /\ tasks = <<>>
    /\ cycle = c
    /\ njobs = 0
    /\ pc = [t \in Threads |-> "idle"]
    /\ loc = [t \in Threads |-> BlankLoc]
    /\ call = [t \in Threads |-> BlankCall]
    /\ scope = [t \in Threads |-> BlankScope]

\* lines 58-81: the Dataplane as constructed
Init ==
    /\ topology \in Topologies
    /\ use_e2ee \in BOOLEAN
    /\ debug \in BOOLEAN
    /\ Quiescent(FALSE, EmptyDict, 0)

\* a thread may start an API call when it is in no call and no exception is
\* propagating out of the body of its auto_deprovision scope
CanCall(t) == pc[t] = "idle" /\ scope[t].state \in {"none", "open", "closed"}

\* leaving "with self.provisioning_lock" with an exception, or by return
Finish(t, outcome) ==
    /\ pc' = [pc EXCEPT ![t] = "ret"]
    /\ call' = [call EXCEPT ![t].outcome = outcome]

\* self.provisioning_lock (threading.Lock): "with" blocks while the lock is
\* held and releases it when the block is left, by return or by exception
locked_never(lock) == FALSE
locked(lock) == lock # NoThread
release_kept(lock) == lock
release(lock) == NoThread

\* do_parallel (skyplane.utils.fn) runs every job of the batch to its end and
\* then hands the error of a failed job, if there is one, to its caller
do_parallel(exc) == IF exc = None THEN "returned" ELSE exc

(* ------------------------------ provision ------------------------------ *)
\* line 109: the guard of the early return
AlreadyProvisioned_never(flag) == FALSE
AlreadyProvisioned(flag) == flag

\* line 143: what servers_by_region[region] holds after .pop()
AfterPop_peek(list) == list
AfterPop(list) == SubSeq(list, 1, Len(list) - 1)

\* line 185: nacl.utils.random draws a key no earlier draw has produced; the
\* draw of a provision call is named by the batch provision the call ran
RandomKey(c) == <<"key", c>>

\* line 177: the e2ee_key_bytes argument of start_gateway
E2eeKeyArg_all(e2ee, am_source, am_sink, key) == IF e2ee THEN key ELSE <<None>>
E2eeKeyArg(e2ee, am_source, am_sink, key) ==
    IF e2ee /\ (am_source \/ am_sink) THEN key ELSE <<None>>

\* provision() is called
P_Call(t) ==
    /\ CanCall(t)
    /\ cycle + Cardinality({u \in Threads : pc[u] \in {"p_lock", "p_check", "p_init", "p_provision"}})
           < MaxCycles
    /\ pc' = [pc EXCEPT ![t] = "p_lock"]
    /\ call' = [call EXCEPT ![t] = [BlankCall EXCEPT !.kind = "provision"]]
    /\ UNCHANGED <<config, dataplane, transfers, provisioner, loc, scope>>

\* line 108: with self.provisioning_lock
P_Acquire(t) ==
    /\ pc[t] = "p_lock"
    /\ ~locked(provisioning_lock)
    /\ provisioning_lock' = t
    /\ pc' = [pc EXCEPT ![t] = "p_check"]
    /\ UNCHANGED <<config, provisioned, bound_nodes, transfers, provisioner, loc, call, scope>>

\* lines 109-111: already provisioned: log the error and return
P_AlreadyProvisioned(t) ==
    /\ pc[t] = "p_check"
    /\ AlreadyProvisioned(provisioned)
    /\ provisioning_lock' = release(provisioning_lock)
    /\ pc' = [pc EXCEPT ![t] = "ret"]
    /\ call' = [call EXCEPT ![t].sawProvisioned = provisioned,
                            ![t].errors = @ + 1,
                            ![t].outcome = "returned"]
    /\ UNCHANGED <<config, provisioned, bound_nodes, transfers, provisioner, loc, scope>>

\* lines 112-125: one add_task per gateway node
P_AddTasks(t) ==
    /\ pc[t] = "p_check"
    /\ ~AlreadyProvisioned(provisioned)
    /\ tasks' = tasks \o [i \in 1..Len(gateway_nodes(topology)) |->
                              Region(gateway_nodes(topology)[i])]
    /\ pc' = [pc EXCEPT ![t] = "p_init"]
    /\ call' = [call EXCEPT ![t].sawProvisioned = provisioned,
                            ![t].add_task = @ + Len(gateway_nodes(topology))]
    /\ UNCHANGED <<config, dataplane, transfers, cycle, loc, scope>>

\* line 128: init_global
P_InitGlobal(t) ==
    /\ pc[t] = "p_init"
    /\ pc' = [pc EXCEPT ![t] = "p_provision"]
    /\ call' = [call EXCEPT ![t].init_global = @ + 1,
                            ![t].tasks_at_init = Len(tasks)]
    /\ UNCHANGED <<config, dataplane, transfers, provisioner, loc, scope>>

\* the server a batch provision mints for its task i
Minted(i) == Server(cycle + 1, i, tasks[i])

\* lines 138-141: the servers of the tasks that did not fail, grouped by
\* region tag in the order returned
RECURSIVE GroupByRegion(_, _, _)
GroupByRegion(failed, i, acc) ==
    IF i > Len(tasks) THEN acc
    ELSE IF i \in failed THEN GroupByRegion(failed, i + 1, acc)
    ELSE GroupByRegion(failed, i + 1,
             Put(acc, Minted(i).region_tag, Append(GetList(acc, Minted(i).region_tag), Minted(i))))

\* lines 131-141: provisioner.provision returns the uuids of the VMs it
\* created; tasks that failed yield none
P_Provision(t) ==
    /\ pc[t] = "p_provision"
    /\ \E failed \in SUBSET (1..Len(tasks)) :
        /\ Cardinality(failed) <= MaxFailedTasks
        /\ loc' = [loc EXCEPT ![t].servers_by_region = GroupByRegion(failed, 1, EmptyDict),
                              ![t].i = 1]
        /\ call' = [call EXCEPT ![t].provision = @ + 1, ![t].unserved = failed]
    /\ tasks' = <<>>
    /\ cycle' = cycle + 1
    /\ pc' = [pc EXCEPT ![t] = "p_bind"]
    /\ UNCHANGED <<config, dataplane, transfers, scope>>

\* line 131: provisioner.provision raises; the with block releases the lock
P_ProvisionRaises(t) ==
    /\ pc[t] = "p_provision"
    /\ tasks' = <<>>
    /\ cycle' = cycle + 1
    /\ provisioning_lock' = release(provisioning_lock)
    /\ pc' = [pc EXCEPT ![t] = "ret"]
    /\ call' = [call EXCEPT ![t].provision = @ + 1, ![t].outcome = "ProvisionerError"]
    /\ UNCHANGED <<config, provisioned, bound_nodes, transfers, loc, scope>>

\* lines 142-144: bind the next gateway node to a server of its region
P_Bind(t) ==
    /\ pc[t] = "p_bind"
    /\ LET node == gateway_nodes(topology)[loc[t].i]
           list == GetList(loc[t].servers_by_region, Region(node))
       IN  /\ list # <<>>
           /\ bound_nodes' = Put(bound_nodes, node, list[Len(list)])
           /\ loc' = [loc EXCEPT ![t].servers_by_region = Put(@, Region(node), AfterPop(list)),
                                 ![t].i = @ + 1]
           /\ pc' = [pc EXCEPT ![t] = IF loc[t].i = Len(gateway_nodes(topology))
                                       THEN "p_flag" ELSE "p_bind"]
    /\ call' = [call EXCEPT ![t].bind = @ + 1]
    /\ UNCHANGED <<config, provisioned, provisioning_lock, transfers, provisioner, scope>>

\* line 143: pop from an empty list raises IndexError; the lock is released
P_BindUnderflow(t) ==
    /\ pc[t] = "p_bind"
    /\ GetList(loc[t].servers_by_region, Region(gateway_nodes(topology)[loc[t].i])) = <<>>
    /\ provisioning_lock' = release(provisioning_lock)
    /\ pc' = [pc EXCEPT ![t] = "ret"]
    /\ call' = [call EXCEPT ![t].outcome = "IndexError"]
    /\ UNCHANGED <<config, provisioned, bound_nodes, transfers, provisioner, loc, scope>>

\* lines 146-149: copy the registry, set the flag
P_Flag(t) ==
    /\ pc[t] = "p_flag"
    /\ provisioned' = TRUE
    /\ loc' = [loc EXCEPT ![t].gateway_bound_nodes = bound_nodes]
    /\ pc' = [pc EXCEPT ![t] = "p_release"]
    /\ call' = [call EXCEPT ![t].flag = @ + 1]
    /\ UNCHANGED <<config, bound_nodes, provisioning_lock, transfers, provisioner, scope>>

\* end of the with block; lines 184-189: the key is drawn, one job per bound node
P_Release(t) ==
    /\ pc[t] = "p_release"
    /\ provisioning_lock' = release(provisioning_lock)
    /\ loc' = [loc EXCEPT ![t].jobs = DOMAIN loc[t].gateway_bound_nodes,
                          ![t].e2ee_key_bytes = cycle]
    /\ pc' = [pc EXCEPT ![t] = "p_start"]
    /\ UNCHANGED <<config, provisioned, bound_nodes, transfers, provisioner, call, scope>>

\* lines 157-164: the address of the peer behind each outgoing edge whose
\* target is a gateway, read from the live registry
PeerAddress_public(gateway_node, n) == public_ip(bound_nodes[n])
PeerAddress(gateway_node, n) ==
    IF Provider(Region(gateway_node)) = Provider(Region(n))
       /\ Provider(Region(gateway_node)) = "gcp"
    THEN private_ip(bound_nodes[n])
    ELSE public_ip(bound_nodes[n])

setup_args(gateway_node) ==
    {PeerAddress(gateway_node, n) : n \in {m \in get_outgoing_paths(gateway_node) : IsGateway(m)}}

\* lines 151-181, run by do_parallel (line 191): _start_gateway for one node
P_StartGateway(t, node) ==
    /\ pc[t] = "p_start"
    /\ node \in loc[t].jobs
    /\ loc' = [loc EXCEPT ![t].jobs = @ \ {node}]
    /\ call' = [call EXCEPT ![t].started = Put(@, node,
                   [server |-> loc[t].gateway_bound_nodes[node],
                    setup_args |-> setup_args(node),
                    e2ee_key_bytes |-> E2eeKeyArg(use_e2ee, node \in source_instances(topology),
                                                  node \in sink_instances(topology),
                                                  RandomKey(loc[t].e2ee_key_bytes))])]
    /\ UNCHANGED <<config, dataplane, transfers, provisioner, pc, scope>>

\* line 174: start_gateway fails on the server of one node
P_StartGatewayFails(t, node) ==
    /\ pc[t] = "p_start"
    /\ node \in loc[t].jobs
    /\ loc' = [loc EXCEPT ![t].jobs = @ \ {node}, ![t].exc = "StartGatewayError"]
    /\ UNCHANGED <<config, dataplane, transfers, provisioner, pc, call, scope>>

\* line 191: do_parallel returns once every job has run, and raises if one failed
P_Return(t) ==
    /\ pc[t] = "p_start"
    /\ loc[t].jobs = {}
    /\ Finish(t, do_parallel(loc[t].exc))
    /\ UNCHANGED <<config, dataplane, transfers, provisioner, loc, scope>>


(* ----------------------------- deprovision ----------------------------- *)
\* line 225: task.join() returns once the tracker has completed
JoinReturns(state) == state = "done"

\* line 223: the for loop ends when index i has passed the n trackers of the list
LoopExhausted_afterFirst(i, n) == i > n \/ i > 1
LoopExhausted(i, n) == i > n

\* lines 226-233: the except clause re-raises the interruption, and the finally
\* clause runs the teardown before it leaves deprovision
FinallyRunsTeardown_not == FALSE
FinallyRunsTeardown == TRUE

\* the record of a deprovision call, with the pending list at call time and
\* the outcomes of the calls of other threads that are over at call time
NewDeprovisionCall ==
    [BlankCall EXCEPT !.kind = "deprovision",
                      !.snapshot = pending_transfers,
                      !.after = {call[u].outcome : u \in {v \in Threads : pc[v] = "ret"}}]

\* deprovision() is called
D_Call(t) ==
    /\ CanCall(t)
    /\ pc' = [pc EXCEPT ![t] = "d_lock"]
    /\ call' = [call EXCEPT ![t] = NewDeprovisionCall]
    /\ UNCHANGED <<config, dataplane, transfers, provisioner, loc, scope>>

\* line 214: with self.provisioning_lock; line 215: if self.debug
D_Acquire(t) ==
    /\ pc[t] = "d_lock"
    /\ ~locked(provisioning_lock)
    /\ provisioning_lock' = t
    /\ pc' = [pc EXCEPT ![t] = IF debug THEN "d_logs" ELSE "d_check"]
    /\ call' = [call EXCEPT ![t].sawProvisioned = provisioned]
    /\ UNCHANGED <<config, provisioned, bound_nodes, transfers, provisioner, loc, scope>>

\* lines 216-217, 193-203: the logs of every bound node are copied
D_CopyLogs(t) ==
    /\ pc[t] = "d_logs"
    /\ pc' = [pc EXCEPT ![t] = "d_check"]
    /\ call' = [call EXCEPT ![t].logs = @ + 1]
    /\ UNCHANGED <<config, dataplane, transfers, provisioner, loc, scope>>

\* line 203: do_parallel raises when copy_log failed on some bound node; the
\* exception leaves deprovision, releasing the lock
D_CopyLogsRaises(t) ==
    /\ pc[t] = "d_logs"
    /\ DOMAIN bound_nodes # {}
    /\ provisioning_lock' = release(provisioning_lock)
    /\ pc' = [pc EXCEPT ![t] = "ret"]
    /\ call' = [call EXCEPT ![t].logs = @ + 1, ![t].outcome = do_parallel("LogPullError")]
    /\ UNCHANGED <<config, provisioned, bound_nodes, transfers, provisioner, loc, scope>>

\* lines 219-220: a dataplane that is not provisioned is only warned about
D_Check(t) ==
    /\ pc[t] = "d_check"
    /\ pc' = [pc EXCEPT ![t] = "d_wait"]
    /\ loc' = [loc EXCEPT ![t].i = 1]
    /\ call' = [call EXCEPT ![t].errors = IF provisioned THEN @ ELSE @ + 1]
    /\ UNCHANGED <<config, dataplane, transfers, provisioner, scope>>

\* lines 223-225: the join of the next pending tracker returns
D_Join(t) ==
    /\ pc[t] = "d_wait"
    /\ ~LoopExhausted(loc[t].i, Len(pending_transfers))
    /\ JoinReturns(trackers[pending_transfers[loc[t].i]].state)
    /\ loc' = [loc EXCEPT ![t].i = @ + 1]
    /\ call' = [call EXCEPT ![t].joined = Append(@, pending_transfers[loc[t].i])]
    /\ UNCHANGED <<config, dataplane, transfers, provisioner, pc, scope>>

\* lines 226-228: KeyboardInterrupt arrives inside the wait loop
D_Interrupt(t) ==
    /\ pc[t] = "d_wait"
    /\ ~LoopExhausted(loc[t].i, Len(pending_transfers))
    /\ loc' = [loc EXCEPT ![t].exc = "KeyboardInterrupt"]
    /\ IF FinallyRunsTeardown
       THEN /\ pc' = [pc EXCEPT ![t] = "d_teardown"]
            /\ call' = [call EXCEPT ![t].interrupted = TRUE]
            /\ UNCHANGED provisioning_lock
       ELSE /\ pc' = [pc EXCEPT ![t] = "ret"]
            /\ call' = [call EXCEPT ![t].interrupted = TRUE,
                                    ![t].outcome = "KeyboardInterrupt"]
            /\ provisioning_lock' = release(provisioning_lock)
    /\ UNCHANGED <<config, provisioned, bound_nodes, transfers, provisioner, scope>>

\* line 223: the list of pending trackers is exhausted
D_WaitDone(t) ==
    /\ pc[t] = "d_wait"
    /\ LoopExhausted(loc[t].i, Len(pending_transfers))
    /\ pc' = [pc EXCEPT ![t] = "d_teardown"]
    /\ UNCHANGED <<config, dataplane, transfers, provisioner, loc, call, scope>>

\* the trackers of a list that have not completed
Unfinished(snapshot) ==
    {snapshot[i] : i \in {j \in 1..Len(snapshot) : trackers[snapshot[j]].state # "done"}}

\* lines 230-233: provisioner.deprovision tears the fleet down
D_Teardown(t) ==
    /\ pc[t] = "d_teardown"
    /\ pc' = [pc EXCEPT ![t] = "d_flag"]
    /\ call' = [call EXCEPT ![t].teardown = @ + 1,
                            ![t].undone = Unfinished(call[t].snapshot),
                            ![t].live_undone = Unfinished(pending_transfers)]
    /\ UNCHANGED <<config, dataplane, transfers, provisioner, loc, scope>>

\* line 230: provisioner.deprovision raises; its exception replaces a pending
\* interruption and line 234 is not reached
D_TeardownRaises(t) ==
    /\ pc[t] = "d_teardown"
    /\ provisioning_lock' = release(provisioning_lock)
    /\ pc' = [pc EXCEPT ![t] = "ret"]
    /\ call' = [call EXCEPT ![t].teardown = @ + 1,
                            ![t].undone = Unfinished(call[t].snapshot),
                            ![t].live_undone = Unfinished(pending_transfers),
                            ![t].outcome = "TeardownError"]
    /\ UNCHANGED <<config, provisioned, bound_nodes, transfers, provisioner, loc, scope>>

\* line 234: the flag is cleared; the lock is released and a pending
\* interruption propagates to the caller
D_Flag(t) ==
    /\ pc[t] = "d_flag"
    /\ provisioned' = FALSE
    /\ provisioning_lock' = release(provisioning_lock)
    /\ pc' = [pc EXCEPT ![t] = "ret"]
    /\ call' = [call EXCEPT ![t].flag = @ + 1,
                            ![t].outcome = IF loc[t].exc = None THEN "returned" ELSE loc[t].exc]
    /\ UNCHANGED <<config, bound_nodes, transfers, provisioner, loc, scope>>

(* ------------------------ queueing and dispatch ------------------------ *)

\* lines 287, 308: the job descriptors
CopyJob(uuid, recursive) == [uuid |-> uuid, kind |-> "copy", recursive |-> recursive]
SyncJob(uuid) == [uuid |-> uuid, kind |-> "sync", recursive |-> TRUE]

\* line 325: what self.jobs_to_dispatch refers to after run_async: a new list
Rebound_keep(old, fresh) == old
Rebound(old, fresh) == fresh

\* lines 287-290: queue_copy
QueueCopy(t, recursive) ==
    /\ CanCall(t)
    /\ njobs < MaxJobs
    /\ njobs' = njobs + 1
    /\ heap' = [heap EXCEPT ![jobs_to_dispatch] = Append(@, CopyJob(njobs + 1, recursive))]
    /\ UNCHANGED <<config, dataplane, jobs_to_dispatch, pending_transfers, trackers,
                   provisioner, pc, loc, call, scope>>

\* lines 308-311: queue_sync
QueueSync(t) ==
    /\ CanCall(t)
    /\ njobs < MaxJobs
    /\ njobs' = njobs + 1
    /\ heap' = [heap EXCEPT ![jobs_to_dispatch] = Append(@, SyncJob(njobs + 1))]
    /\ UNCHANGED <<config, dataplane, jobs_to_dispatch, pending_transfers, trackers,
                   provisioner, pc, loc, call, scope>>

\* lines 319-326: run_async has no "with self.provisioning_lock"; whoever
\* holds the lock, its steps do not wait
RunAsyncWaits_forLock(lock, t) == locked(lock) /\ lock # t
RunAsyncWaits(lock, t) == FALSE

\* run_async() (kind "run_async") or run() (kind "run") is called;
\* lines 319-320: the flag is read, an unset flag is reported, and the call goes on
R_Call(t, kind) ==
    /\ CanCall(t)
    /\ Len(trackers) < MaxTrackers
    /\ pc' = [pc EXCEPT ![t] = "r_create"]
    /\ call' = [call EXCEPT ![t] = [BlankCall EXCEPT
                    !.kind = kind,
                    !.sawProvisioned = provisioned,
                    !.snapshot = pending_transfers,
                    !.errors = IF provisioned THEN 0 ELSE 1]]
    /\ UNCHANGED <<config, dataplane, transfers, provisioner, loc, scope>>

\* lines 321-322: the tracker is built on the queued list and registered
R_Create(t) ==
    /\ pc[t] = "r_create"
    /\ ~RunAsyncWaits(provisioning_lock, t)
    /\ trackers' = Append(trackers, [jobs |-> jobs_to_dispatch, state |-> "created",
                                     queued |-> njobs])
    /\ pending_transfers' = Append(pending_transfers, Len(trackers) + 1)
    /\ loc' = [loc EXCEPT ![t].tracker = Len(trackers) + 1]
    /\ pc' = [pc EXCEPT ![t] = "r_start"]
    /\ call' = [call EXCEPT ![t].created = @ + 1]
    /\ UNCHANGED <<config, dataplane, jobs_to_dispatch, heap, njobs, provisioner, scope>>

\* line 323: tracker.start()
R_Start(t) ==
    /\ pc[t] = "r_start"
    /\ ~RunAsyncWaits(provisioning_lock, t)
    /\ trackers' = [trackers EXCEPT ![loc[t].tracker].state = "running"]
    /\ pc' = [pc EXCEPT ![t] = "r_clear"]
    /\ UNCHANGED <<config, dataplane, jobs_to_dispatch, heap, njobs, pending_transfers,
                   provisioner, loc, call, scope>>

\* lines 325-326: the queue is rebound to a new empty list and the tracker
\* returned; line 336: run() goes on to join it
R_Clear(t) ==
    /\ pc[t] = "r_clear"
    /\ LET fresh == Cardinality(DOMAIN heap)
       IN  /\ heap' = [r \in DOMAIN heap \cup {fresh} |-> IF r = fresh THEN <<>> ELSE heap[r]]
           /\ jobs_to_dispatch' = Rebound(jobs_to_dispatch, fresh)
    /\ IF call[t].kind = "run"
       THEN /\ pc' = [pc EXCEPT ![t] = "run_join"]
            /\ UNCHANGED call
       ELSE Finish(t, "returned")
    /\ UNCHANGED <<config, dataplane, njobs, pending_transfers, trackers, provisioner,
                   loc, scope>>

\* line 336: tracker.join() returns
Run_Join(t) ==
    /\ pc[t] = "run_join"
    /\ JoinReturns(trackers[loc[t].tracker].state)
    /\ Finish(t, "returned")
    /\ UNCHANGED <<config, dataplane, transfers, provisioner, loc, scope>>

\* a started tracker completes its transfer (with success or failure)
T_Finish(k) ==
    /\ k \in 1..Len(trackers)
    /\ trackers[k].state = "running"
    /\ trackers' = [trackers EXCEPT ![k].state = "done"]
    /\ UNCHANGED <<config, dataplane, jobs_to_dispatch, heap, njobs, pending_transfers,
                   provisioner, pc, loc, call, scope>>

(* --------------------------- cost estimation --------------------------- *)
\* job.size_gb(): the estimated size of a job in GB (whole numbers here):
\* nothing to transfer for a sync job, and a recursive copy twice the size of
\* a plain one
size_gb(job) ==
    CASE job.kind = "sync" -> 0
      [] job.recursive -> 2 * job.uuid
      [] OTHER -> job.uuid

\* topology.cost_per_gb, in cents
cost_per_gb(T) == IF T = "A" THEN 3 ELSE 2

\* line 342: total_size += job.size_gb()
Accumulate_last(total_size, job) == size_gb(job)
Accumulate(total_size, job) == total_size + size_gb(job)

\* lines 340-342: the loop over self.jobs_to_dispatch, from its i-th job on
RECURSIVE TotalSize(_, _, _)
TotalSize(jobs, i, total_size) ==
    IF i > Len(jobs) THEN total_size
    ELSE TotalSize(jobs, i + 1, Accumulate(total_size, jobs[i]))

\* lines 338-343: estimate_total_cost
estimate_total_cost(t) ==
    /\ CanCall(t)
    /\ pc' = [pc EXCEPT ![t] = "ret"]
    /\ call' = [call EXCEPT ![t] = [BlankCall EXCEPT
                    !.kind = "estimate_total_cost",
                    !.queue = heap[jobs_to_dispatch],
                    !.result = <<TotalSize(heap[jobs_to_dispatch], 1, 0) * cost_per_gb(topology)>>,
                    !.outcome = "returned"]]
    /\ UNCHANGED <<config, dataplane, transfers, provisioner, loc, scope>>

(* ------------------------------- readers ------------------------------ *)
\* The readers take no lock.  Each records what it returned (result) and the
\* registry as it stood when the reader read it (seen), with the number of
\* batch provisions executed by then (at).

\* lines 257, 261: the list comprehension over the source or sink instances
Lookup(registry, instances) == [n \in instances |-> registry[n]]

\* lines 257, 261: source_gateways() / sink_gateways() is called and evaluates
\* the condition "if self.provisioned"; when it is false the result is []
G_Call(t, kind) ==
    /\ CanCall(t)
    /\ pc' = [pc EXCEPT ![t] = IF provisioned THEN "g_read" ELSE "ret"]
    /\ call' = [call EXCEPT ![t] = [BlankCall EXCEPT
                    !.kind = kind,
                    !.sawProvisioned = provisioned,
                    !.result = EmptyDict,
                    !.outcome = IF provisioned THEN "running" ELSE "returned"]]
    /\ UNCHANGED <<config, dataplane, transfers, provisioner, loc, scope>>

\* lines 257, 261: the registry is read for every source (sink) instance
G_Read(t) ==
    /\ pc[t] = "g_read"
    /\ LET instances == IF call[t].kind = "source_gateways"
                        THEN source_instances(topology) ELSE sink_instances(topology)
       IN  call' = [call EXCEPT
                       ![t].seen = bound_nodes,
                       ![t].at = cycle,
                       ![t].result = IF instances \subseteq DOMAIN bound_nodes
                                     THEN Lookup(bound_nodes, instances) ELSE EmptyDict,
                       ![t].outcome = IF instances \subseteq DOMAIN bound_nodes
                                      THEN "returned" ELSE "KeyError"]
    /\ pc' = [pc EXCEPT ![t] = "ret"]
    /\ UNCHANGED <<config, dataplane, transfers, provisioner, loc, scope>>

\* lines 246-249: check_error_logs() fetches the errors of every server in
\* self.bound_nodes.items(); line 203: copy_gateway_logs(), called directly,
\* pulls the logs of every server in self.bound_nodes.values().  Either
\* raises when the fetch fails on some server (exc).
FleetRead(t, kind, exc) ==
    /\ CanCall(t)
    /\ exc # None => DOMAIN bound_nodes # {}
    /\ pc' = [pc EXCEPT ![t] = "ret"]
    /\ call' = [call EXCEPT ![t] = [BlankCall EXCEPT
                    !.kind = kind,
                    !.seen = bound_nodes,
                    !.at = cycle,
                    !.result = IF exc = None THEN bound_nodes ELSE EmptyDict,
                    !.outcome = do_parallel(exc)]]
    /\ UNCHANGED <<config, dataplane, transfers, provisioner, loc, scope>>

check_error_logs(t, exc) == FleetRead(t, "check_error_logs", exc)
copy_gateway_logs(t, exc) == FleetRead(t, "copy_gateway_logs", exc)

(* --------------------------- auto_deprovision -------------------------- *)
\* lines 29-30, 253: the wrapper object built by auto_deprovision()
DataplaneAutoDeprovision(dp) == [class |-> "DataplaneAutoDeprovision", dataplane |-> dp]
auto_deprovision == DataplaneAutoDeprovision(Self)

\* lines 32-33: __enter__
Enter(wrapper) == wrapper.dataplane

\* lines 35-37: __exit__ calls deprovision whatever exc_type is
ExitDeprovisions_cleanOnly(exc_type) == exc_type = None
ExitDeprovisions(exc_type) == TRUE

\* with dataplane.auto_deprovision() as dp: the scope is entered
S_Enter(t) ==
    /\ pc[t] = "idle"
    /\ scope[t].state \in {"none", "closed"}
    /\ scope' = [scope EXCEPT ![t] = [state |-> "open", entered |-> Enter(auto_deprovision),
                                      how |-> None, deprovisions |-> 0]]
    /\ UNCHANGED <<config, dataplane, transfers, provisioner, pc, loc, call>>

\* the body of the scope ends: by running to its end ("normal"), by a return
\* inside it ("early"), or with an exception propagating out of it ("error");
\* __exit__ runs
S_Exit(t, how) ==
    /\ pc[t] = "idle"
    /\ \/ scope[t].state = "open"
       \/ scope[t].state = "failed" /\ how = "error"
    /\ LET exc_type == IF how = "error" THEN "Exception" ELSE None
       IN  IF ExitDeprovisions(exc_type)
           THEN /\ pc' = [pc EXCEPT ![t] = "d_lock"]
                /\ call' = [call EXCEPT ![t] = NewDeprovisionCall]
                /\ scope' = [scope EXCEPT ![t].state = "exiting", ![t].how = how,
                                          ![t].deprovisions = @ + 1]
           ELSE /\ scope' = [scope EXCEPT ![t].state = "closed", ![t].how = how]
                /\ UNCHANGED <<pc, call>>
    /\ UNCHANGED <<config, dataplane, transfers, provisioner, loc>>

(* ------------------------------ returning ------------------------------ *)
Raised(outcome) == outcome \notin {"running", "returned"}

\* the call returns to its caller, or its exception propagates to it
Return(t) ==
    /\ pc[t] = "ret"
    /\ pc' = [pc EXCEPT ![t] = "idle"]
    /\ loc' = [loc EXCEPT ![t] = BlankLoc]
    /\ call' = [call EXCEPT ![t] = BlankCall]
    /\ scope' = [scope EXCEPT ![t].state =
                    CASE @ = "exiting" -> "closed"
                      [] @ = "open" /\ Raised(call[t].outcome) -> "failed"
                      [] OTHER -> @]
    /\ UNCHANGED <<config, dataplane, transfers, provisioner>>

(* --------------------------- specifications --------------------------- *)
\* the steps of provision
Provision(t) ==
    \/ P_Call(t)
    \/ P_Acquire(t)
    \/ P_AlreadyProvisioned(t)
    \/ P_AddTasks(t)
    \/ P_InitGlobal(t)
    \/ P_Provision(t)
    \/ P_ProvisionRaises(t)
    \/ P_Bind(t)
    \/ P_BindUnderflow(t)
    \/ P_Flag(t)
    \/ P_Release(t)
    \/ \E n \in GatewaySet(topology) : P_StartGateway(t, n)
    \/ \E n \in GatewaySet(topology) : P_StartGatewayFails(t, n)
    \/ P_Return(t)

\* the steps of deprovision taken in debug mode only
Logs(t) ==
    \/ D_CopyLogs(t)
    \/ D_CopyLogsRaises(t)

\* the steps of deprovision that depend neither on debug mode nor on a
\* pending tracker
Deprovision(t) ==
    \/ D_Call(t)
    \/ D_Acquire(t)
    \/ D_Check(t)
    \/ D_WaitDone(t)
    \/ D_Teardown(t)
    \/ D_TeardownRaises(t)
    \/ D_Flag(t)

\* the steps of deprovision inside its wait loop
Drain(t) ==
    \/ D_Join(t)
    \/ D_Interrupt(t)

\* the steps of run_async and run, and the trackers' own progress
Dispatch(t) ==
    \/ \E k \in {"run_async", "run"} : R_Call(t, k)
    \/ R_Create(t)
    \/ R_Start(t)
    \/ R_Clear(t)
    \/ Run_Join(t)

Queue(t) ==
    \/ \E r \in BOOLEAN : QueueCopy(t, r)
    \/ QueueSync(t)

Readers(t) ==
    \/ \E kind \in {"source_gateways", "sink_gateways"} : G_Call(t, kind)
    \/ G_Read(t)
    \/ \E exc \in {None, "FetchError"} : check_error_logs(t, exc)
    \/ \E exc \in {None, "FetchError"} : copy_gateway_logs(t, exc)

Scoped(t) ==
    \/ S_Enter(t)
    \/ \E how \in {"normal", "early", "error"} : S_Exit(t, how)

Trackers == \E k \in 1..MaxTrackers : T_Finish(k)

\* The whole system: both threads provision, deprovision and use the scoped
\* wrapper; the client queues and dispatches.
Next ==
    \/ \E t \in Threads : Provision(t) \/ Logs(t) \/ Deprovision(t) \/ Drain(t)
    \/ \E t \in Threads : Scoped(t) \/ Return(t)
    \/ \E t \in Threads : Readers(t)
    \/ Dispatch(Client) \/ Queue(Client) \/ estimate_total_cost(Client)
    \/ Trackers

Spec == Init /\ [][Next]_vars

\* The specifications below are Spec with the environment narrowed (which
\* thread calls what, which Dataplane is constructed); each of their
\* behaviours is a behaviour of Spec.

\* a Dataplane on topology "A" with end-to-end encryption on
InitA == Init /\ topology = "A" /\ use_e2ee

\* one caller provisions and deprovisions, on every Dataplane
NextBootstrap == Provision(Client) \/ Logs(Client) \/ Deprovision(Client) \/ Return(Client)
SpecBootstrap == Init /\ [][NextBootstrap]_vars

\* two threads provision and deprovision concurrently; nothing is dispatched
NextFleet == \E t \in Threads : Provision(t) \/ Logs(t) \/ Deprovision(t) \/ Return(t)
SpecFleet == InitA /\ [][NextFleet]_vars

\* the client dispatches while the operator provisions and deprovisions
NextDrain ==
    \/ Dispatch(Client) \/ Return(Client)
    \/ Provision(Operator) \/ Logs(Operator) \/ Deprovision(Operator) \/ Drain(Operator)
    \/ Return(Operator)
    \/ Trackers
SpecDrain == InitA /\ [][NextDrain]_vars

\* the operator works inside auto_deprovision scopes while the client
\* provisions and deprovisions
NextScope ==
    \/ Scoped(Operator)
    \/ \E t \in Threads : Provision(t) \/ Logs(t) \/ Deprovision(t) \/ Return(t)
SpecScope == InitA /\ [][NextScope]_vars

\* the client reads the fleet while the operator provisions and deprovisions
NextReaders ==
    \/ Readers(Client) \/ Return(Client)
    \/ Provision(Operator) \/ Logs(Operator) \/ Deprovision(Operator) \/ Return(Operator)
SpecReaders == InitA /\ [][NextReaders]_vars

\* the registry of topology "A" after its first provision has bound every node
BoundA == [n \in GatewaySet("A") |->
             CASE n = "a_src" -> Server(1, 1, Region("a_src"))
               [] n = "a_relay" -> Server(1, 3, Region("a_relay"))
               [] n = "a_sink" -> Server(1, 2, Region("a_sink"))]

\* a Dataplane on topology "A" without debug mode, as constructed or as its
\* first provision leaves it
InitQueue ==
    /\ topology = "A"
    /\ use_e2ee = TRUE
    /\ debug = FALSE
    /\ Quiescent(FALSE, EmptyDict, 0) \/ Quiescent(TRUE, BoundA, 1)

\* a single caller queues, dispatches and deprovisions
NextQueue ==
    \/ Queue(Client) \/ Dispatch(Client) \/ Trackers
    \/ Deprovision(Client) \/ Drain(Client) \/ Return(Client)
SpecQueue == InitQueue /\ [][NextQueue]_vars

\* a single caller queues, dispatches and asks for the cost estimate
NextCost ==
    \/ Queue(Client) \/ Dispatch(Client) \/ estimate_total_cost(Client)
    \/ Trackers \/ Return(Client)
SpecCost == InitQueue /\ [][NextCost]_vars

\* the state InitQueue starts from when the flag is set; SpecBootstrap reaches it
AfterFirstProvision == topology = "A" /\ use_e2ee /\ ~debug /\ Quiescent(TRUE, BoundA, 1)

(* ------------------------------- claims -------------------------------- *)
ProvisionCalls == {t \in Threads : call[t].kind = "provision"}
DeprovisionCalls == {t \in Threads : call[t].kind = "deprovision"}
DispatchCalls == {t \in Threads : call[t].kind \in {"run_async", "run"}}
Returned(t) == pc[t] = "ret"

\* C1: a provision call that finds the flag set is a reported no-op: it
\* raises nothing, submits no task, calls neither init_global nor
\* provisioner.provision, starts no gateway, writes neither the registry nor
\* the flag, and reports one error.
C1_SecondProvisionNoOp ==
    \A t \in ProvisionCalls :
        call[t].sawProvisioned =>
            /\ call[t].add_task = 0
            /\ call[t].init_global = 0
            /\ call[t].provision = 0
            /\ call[t].bind = 0
            /\ call[t].flag = 0
            /\ DOMAIN call[t].started = {}
            /\ ~Raised(call[t].outcome)
            /\ Returned(t) /\ call[t].errors = 1

\* C1 witness: a provision call has returned as a no-op while the call of
\* another thread, which set the flag, is still starting its gateways
C1_Witness ==
    \E t \in ProvisionCalls, u \in ProvisionCalls :
        /\ t # u
        /\ Returned(t) /\ call[t].sawProvisioned /\ call[t].outcome = "returned"
        /\ pc[u] = "p_start" /\ call[u].flag = 1

\* C2 as claimed: whenever a deprovision call has invoked the teardown, every
\* tracker that was in the pending-transfer list when the call was made has
\* completed, and the joins that returned are those of the list, in order.
JoinedInListOrder(t) ==
    /\ Len(call[t].joined) <= Len(pending_transfers)
    /\ \A i \in 1..Len(call[t].joined) : call[t].joined[i] = pending_transfers[i]

C2_Claimed ==
    \A t \in DeprovisionCalls :
        /\ JoinedInListOrder(t)
        /\ call[t].teardown > 0 => call[t].undone = {}

\* C2 amended: the same, for the deprovision calls whose wait no interruption
\* cut short; before the teardown of such a call every tracker of the list at
\* call time has been joined, and each join returned on a completed tracker.
C2_DrainBeforeTeardown ==
    \A t \in DeprovisionCalls :
        /\ JoinedInListOrder(t)
        /\ \A i \in 1..Len(call[t].joined) : trackers[call[t].joined[i]].state = "done"
        /\ (call[t].teardown > 0 /\ ~call[t].interrupted) =>
               /\ call[t].undone = {}
               /\ Len(call[t].joined) >= Len(call[t].snapshot)

\* C2 witness: an uninterrupted deprovision has torn down after joining a
\* tracker that was pending when it was called
C2_Witness ==
    \E t \in DeprovisionCalls :
        /\ call[t].teardown = 1 /\ ~call[t].interrupted
        /\ Len(call[t].snapshot) >= 1 /\ Len(call[t].joined) >= 1

\* C3 as claimed: a deprovision call interrupted in its wait has, when it is
\* over, invoked the teardown exactly once and left the flag not set, and its
\* caller receives the interruption; the interruption never reaches the
\* caller before the teardown has run.
C3_Claimed ==
    \A t \in DeprovisionCalls :
        call[t].interrupted =>
            /\ call[t].teardown <= 1
            /\ call[t].outcome = "KeyboardInterrupt" => call[t].teardown = 1
            /\ Returned(t) =>
                   /\ call[t].teardown = 1
                   /\ ~provisioned
                   /\ call[t].outcome = "KeyboardInterrupt"

\* C3 amended: an interrupted deprovision call invokes the teardown exactly
\* once before it is over; when the teardown returns, the flag is cleared and
\* the caller then receives the interruption; when the teardown itself raises,
\* the flag is left as the call found it and the caller receives the
\* teardown's error.
C3_TeardownOnInterrupt ==
    \A t \in DeprovisionCalls :
        call[t].interrupted =>
            /\ call[t].teardown <= 1
            /\ call[t].outcome = "KeyboardInterrupt" => call[t].teardown = 1 /\ call[t].flag = 1
            /\ Returned(t) =>
                   /\ call[t].teardown = 1
                   /\ \/ /\ call[t].outcome = "KeyboardInterrupt"
                         /\ call[t].flag = 1
                         /\ ~provisioned
                      \/ /\ call[t].outcome = "TeardownError"
                         /\ call[t].flag = 0
                         /\ provisioned = call[t].sawProvisioned

\* C3 witness: a deprovision call that found the flag set was interrupted
\* while a tracker was running, tore down, cleared the flag and handed the
\* interruption to its caller
C3_Witness ==
    \E t \in DeprovisionCalls :
        /\ Returned(t) /\ call[t].interrupted /\ call[t].sawProvisioned
        /\ call[t].undone # {}
        /\ call[t].teardown = 1 /\ call[t].flag = 1 /\ ~provisioned
        /\ call[t].outcome = "KeyboardInterrupt"

\* C4: while the flag is set, the registry has an entry for exactly the
\* gateway nodes of the topology, every node is bound to a server of its own
\* region, and no two nodes are bound to the same server.
C4_RegistryComplete ==
    provisioned =>
        /\ DOMAIN bound_nodes = GatewaySet(topology)
        /\ \A n \in DOMAIN bound_nodes : bound_nodes[n].region_tag = Region(n)
        /\ \A n, m \in DOMAIN bound_nodes : n # m => bound_nodes[n] # bound_nodes[m]

\* C4 witness: a second provision has just set the flag, with every node bound
\* to a server of its own batch, while the call that provisioned first is
\* still starting the gateways it bound
C4_Witness ==
    \E t \in ProvisionCalls, u \in ProvisionCalls :
        /\ pc[t] = "p_release" /\ provisioned
        /\ \A n \in DOMAIN bound_nodes : bound_nodes[n].uuid[1] = 2
        /\ bound_nodes["a_relay"].region_tag = bound_nodes["a_sink"].region_tag
        /\ pc[u] = "p_start"
        /\ \A n \in DOMAIN loc[u].gateway_bound_nodes : loc[u].gateway_bound_nodes[n].uuid[1] = 1

C6_Claimed ==
    \A t \in DeprovisionCalls :
        (Returned(t) /\ ~call[t].sawProvisioned) =>
            /\ call[t].teardown = 1
            /\ ~call[t].interrupted => Len(call[t].joined) >= Len(call[t].snapshot)
            /\ ~provisioned

\* C7: entering the scope yields the Dataplane itself; no deprovision is made
\* on behalf of the scope while its body runs, and from the moment the body
\* is left, on whichever path, exactly one has been.
C7_ScopeDeprovisionsOnce ==
    \A t \in Threads :
        /\ scope[t].state # "none" => scope[t].entered = Self
        /\ scope[t].state \in {"open", "failed"} => scope[t].deprovisions = 0
        /\ scope[t].state = "exiting" => scope[t].deprovisions = 1 /\ t \in DeprovisionCalls
        /\ scope[t].state = "closed" => scope[t].deprovisions = 1

\* C7 witness: a scope has been left with an error after the provision call
\* in its body failed, and its deprovision is over
C7_Witness ==
    \E t \in Threads :
        /\ scope[t].state = "closed" /\ scope[t].how = "error"
        /\ scope[t].deprovisions = 1 /\ cycle > 0 /\ ~provisioned

\* C8: the job list of the k-th tracker is, at any time, exactly the jobs
\* queued between the (k-1)-th and the k-th run_async, in queueing order; the
\* queue is empty when run_async returns; outside run_async every job queued
\* so far is either in the queue or in the list of exactly one tracker.
QueuedBefore(k) == IF k = 0 THEN 0 ELSE trackers[k].queued
Uuids(jobs) == [i \in 1..Len(jobs) |-> jobs[i].uuid]
TrackerJobs(k) == Uuids(heap[trackers[k].jobs])
Holders(u) == {k \in 1..Len(trackers) : \E i \in 1..Len(TrackerJobs(k)) : TrackerJobs(k)[i] = u}
InQueue(u) == \E i \in 1..Len(heap[jobs_to_dispatch]) : heap[jobs_to_dispatch][i].uuid = u

C8_QueueThenDispatch ==
    /\ \A k \in 1..Len(trackers) :
           TrackerJobs(k) = [i \in 1..(QueuedBefore(k) - QueuedBefore(k - 1)) |->
                                QueuedBefore(k - 1) + i]
    /\ \A t \in DispatchCalls : Returned(t) => heap[jobs_to_dispatch] = <<>>
    /\ pc[Client] \notin {"r_start", "r_clear"} =>
           \A u \in 1..njobs :
               /\ Cardinality(Holders(u)) <= 1
               /\ InQueue(u) <=> Holders(u) = {}

\* C8 witness: two trackers, the first holding the first two jobs and the
\* second the third, and run_async has just returned
C8_Witness ==
    /\ Len(trackers) = 2
    /\ TrackerJobs(1) = <<1, 2>>
    /\ TrackerJobs(2) = <<3>>
    /\ Returned(Client) /\ call[Client].kind = "run_async"

\* C9 as claimed: run_async or run called while the flag is not set creates
\* and registers no tracker, keeps the queued jobs and raises nothing.
C9_Claimed ==
    \A t \in DispatchCalls :
        ~call[t].sawProvisioned =>
            /\ call[t].created = 0
            /\ pending_transfers = call[t].snapshot
            /\ ~Raised(call[t].outcome)
            /\ call[t].errors = 1

\* C10: in the start-gateway calls of one provision call, a node that is
\* neither source nor sink gets no key; a key is passed only with end-to-end
\* encryption on and to a source or sink; all keys passed are the same key.
KeyPassed(t, n) == call[t].started[n].e2ee_key_bytes
Endpoints == source_instances(topology) \cup sink_instances(topology)

C10_EndpointOnlyKey ==
    \A t \in ProvisionCalls :
        \A n \in DOMAIN call[t].started :
            /\ n \notin Endpoints => KeyPassed(t, n) = <<None>>
            /\ KeyPassed(t, n) # <<None>> => use_e2ee /\ n \in Endpoints
            /\ \A m \in DOMAIN call[t].started :
                   (KeyPassed(t, n) # <<None>> /\ KeyPassed(t, m) # <<None>>) =>
                       KeyPassed(t, n) = KeyPassed(t, m)

\* C10 witness: with encryption on, the gateways of a re-provisioned fleet are
\* all started: the relay without a key, source and sink with the same key
C10_Witness ==
    \E t \in ProvisionCalls :
        /\ use_e2ee /\ topology = "A" /\ cycle = 2
        /\ DOMAIN call[t].started = GatewaySet("A")
        /\ KeyPassed(t, "a_relay") = <<None>>
        /\ KeyPassed(t, "a_src") # <<None>>
        /\ KeyPassed(t, "a_src") = KeyPassed(t, "a_sink")

\* C11: in every start-gateway call, the address map of the node has one entry
\* for each outgoing edge whose target is a gateway and none for any other
\* edge; the entry is the private address of the server bound to the target
\* when the node and the target are both on gcp, and its public address for
\* every other pair of providers.
GatewayTargets(n) == {m \in get_outgoing_paths(n) : m \in GatewaySet(topology)}
BothOnGcp(n, m) == Region(n)[1] = "gcp" /\ Region(m)[1] = "gcp"
ExpectedAddress(t, n, m) ==
    <<IF BothOnGcp(n, m) THEN "private" ELSE "public", loc[t].gateway_bound_nodes[m].uuid>>

C11_PrivateLinkPreference ==
    \A t \in ProvisionCalls :
        \A n \in DOMAIN call[t].started :
            call[t].started[n].setup_args = {ExpectedAddress(t, n, m) : m \in GatewayTargets(n)}

\* C11 witness: the four gateways of topology "B" are started: the aws node
\* holds the public address of the azure node, the gcp node the private
\* address of the gcp node of another region, and the sink, whose only edge
\* leads to the object store, holds no address
C11_Witness ==
    \E t \in ProvisionCalls :
        /\ topology = "B" /\ DOMAIN call[t].started = GatewaySet("B")
        /\ call[t].started["b_g1"].setup_args = {<<"public", bound_nodes["b_g2"].uuid>>}
        /\ call[t].started["b_g3"].setup_args = {<<"private", bound_nodes["b_g4"].uuid>>}
        /\ call[t].started["b_g4"].setup_args = {}

\* C12: at most one thread is inside the critical section of provision (from
\* the already-provisioned check to the setting of the flag) or of deprovision
\* (log pull, tracker wait, teardown, clearing of the flag), and that thread
\* holds the lock; every step that changes the flag or the registry is a step
\* of the thread that holds the lock.
InProvisionSection(t) == pc[t] \in {"p_check", "p_init", "p_provision", "p_bind", "p_flag", "p_release"}
InDeprovisionSection(t) == pc[t] \in {"d_logs", "d_check", "d_wait", "d_teardown", "d_flag"}
InCriticalSection == {t \in Threads : InProvisionSection(t) \/ InDeprovisionSection(t)}
Stepping == {t \in Threads : pc'[t] # pc[t] \/ call'[t] # call[t] \/ loc'[t] # loc[t]}

MutualExclusion ==
    /\ Cardinality(InCriticalSection) <= 1
    /\ \A t \in InCriticalSection : provisioning_lock = t

WritesUnderLock ==
    (provisioned' # provisioned \/ bound_nodes' # bound_nodes) =>
        /\ provisioning_lock \in InCriticalSection
        /\ Stepping = {provisioning_lock}

C12_WritesUnderLock == [](MutualExclusion) /\ [][WritesUnderLock]_vars

\* C12 witness: a provision call has bound some nodes and not yet all while
\* the other thread waits for the lock
C12_Witness ==
    \E t \in Threads, u \in Threads :
        /\ t # u
        /\ pc[t] = "p_bind" /\ call[t].bind >= 1 /\ provisioning_lock = t
        /\ pc[u] \in {"p_lock", "d_lock"}

\* C13 as claimed: every peer address a provision call hands to a gateway is
\* an address of a server in the copy of the registry that call took under
\* the lock.
CopiedAddresses(t) ==
    UNION {{<<"public", loc[t].gateway_bound_nodes[m].uuid>>,
            <<"private", loc[t].gateway_bound_nodes[m].uuid>>} :
                m \in DOMAIN loc[t].gateway_bound_nodes}

C13_Claimed ==
    \A t \in ProvisionCalls :
        \A n \in DOMAIN call[t].started :
            call[t].started[n].setup_args \subseteq CopiedAddresses(t)

\* C14 as claimed: the registry, whenever a reader that holds no lock reads
\* it, has a server of the latest batch provision bound to every gateway node
\* or to none.
ReaderCalls ==
    {t \in Threads : call[t].kind \in {"source_gateways", "sink_gateways",
                                       "check_error_logs", "copy_gateway_logs"}}
BoundInCycle(registry, c) == {n \in DOMAIN registry : registry[n].uuid[1] = c}
Partial(registry, c) ==
    /\ BoundInCycle(registry, c) # {}
    /\ BoundInCycle(registry, c) # GatewaySet(topology)

C14_Claimed == \A t \in ReaderCalls : ~Partial(call[t].seen, call[t].at)

\* C15: run_async is not excluded by the lock: the call never holds it, and
\* wherever the call stands before registering or before starting its
\* tracker, that step can be taken at once, whoever holds the lock and
\* wherever a deprovision call stands.
C15_DispatchNotExcluded ==
    \A t \in DispatchCalls :
        /\ provisioning_lock # t
        /\ pc[t] = "r_create" => ENABLED R_Create(t)
        /\ pc[t] = "r_start" => ENABLED R_Start(t)

\* C15 witness: a deprovision call that was not interrupted has left its wait
\* loop and invoked the teardown, still holding the lock, while a tracker that
\* run_async registered after the loop ended was running; run_async had read
\* the flag as set
C15_Witness ==
    \E u \in DeprovisionCalls, t \in DispatchCalls :
        /\ call[u].teardown = 1 /\ ~call[u].interrupted /\ provisioning_lock = u
        /\ call[t].sawProvisioned /\ call[t].created = 1
        /\ loc[t].tracker \in call[u].live_undone
        /\ trackers[loc[t].tracker].state = "running"
        /\ \A i \in 1..Len(call[u].joined) : call[u].joined[i] # loc[t].tracker

\* C16: the estimate returned is the sum of the sizes of the jobs now in the
\* queue times the cost per GB of the topology; it is 0 when the queue is
\* empty; the queue is what it was when the estimate was asked for.
RECURSIVE SumOver(_, _)
SumOver(jobs, indices) ==
    IF indices = {} THEN 0
    ELSE LET i == CHOOSE j \in indices : TRUE
         IN  size_gb(jobs[i]) + SumOver(jobs, indices \ {i})
EstimateCalls == {t \in Threads : call[t].kind = "estimate_total_cost"}
Queued == heap[jobs_to_dispatch]

C16_CostEstimate ==
    \A t \in EstimateCalls :
        /\ call[t].result = <<SumOver(Queued, 1..Len(Queued)) * cost_per_gb(topology)>>
        /\ Queued = <<>> => call[t].result = <<0>>
        /\ Queued = call[t].queue
        /\ call[t].outcome = "returned"

\* C16 witness: after a run_async has emptied the queue, two more jobs of
\* different sizes are queued and the estimate is asked for
C16_Witness ==
    \E t \in EstimateCalls :
        /\ Len(trackers) >= 1 /\ Len(Queued) = 2
        /\ size_gb(Queued[1]) > 0 /\ size_gb(Queued[2]) > size_gb(Queued[1])
        /\ call[t].result[1] = (size_gb(Queued[1]) + size_gb(Queued[2])) * cost_per_gb(topology)

\* C16 witness of the empty queue: the estimate asked for right after a
\* run_async that dispatched queued jobs
C16_WitnessEmpty ==
    \E t \in EstimateCalls :
        /\ Len(trackers) >= 1 /\ TrackerJobs(Len(trackers)) # <<>>
        /\ Queued = <<>> /\ call[t].result = <<0>>

\* C17: in a provision call, init_global is called at most once and only
\* after one add_task per gateway node; provisioner.provision only after
\* init_global; servers are bound only after provisioner.provision; the flag
\* is set only after every node is bound; a gateway is started only after the
\* flag is set and the lock released, never while the call holds the lock.
Nodes == Len(gateway_nodes(topology))

C17_ProvisionOrder ==
    \A t \in ProvisionCalls :
        /\ call[t].add_task \in {0, Nodes}
        /\ call[t].init_global <= 1 /\ call[t].provision <= 1 /\ call[t].flag <= 1
        /\ call[t].init_global = 1 => call[t].add_task = Nodes /\ call[t].tasks_at_init = Nodes
        /\ call[t].provision = 1 => call[t].init_global = 1
        /\ call[t].bind > 0 => call[t].provision = 1 /\ call[t].bind <= Nodes
        /\ call[t].flag = 1 => call[t].bind = Nodes
        /\ (pc[t] = "p_start" \/ DOMAIN call[t].started # {}) =>
               call[t].flag = 1 /\ provisioning_lock # t
        /\ provisioning_lock = t => DOMAIN call[t].started = {}

\* C17 witness: a provision call has gone through every step and started a
\* gateway while the other thread holds the lock
C17_Witness ==
    \E t \in ProvisionCalls, u \in Threads :
        /\ t # u /\ provisioning_lock = u
        /\ call[t].add_task = Nodes /\ call[t].init_global = 1 /\ call[t].provision = 1
        /\ call[t].bind = Nodes /\ call[t].flag = 1
        /\ DOMAIN call[t].started # {}

\* C18 as claimed: a provision call invokes no teardown; one that failed in
\* start-gateway has set the flag and leaves every gateway node bound; and a
\* deprovision call made after such a failure has, when it is over, invoked
\* the teardown once.
FailedStart(t) == call[t].kind = "provision" /\ call[t].outcome = "StartGatewayError"
AfterFailedStart(u) == call[u].kind = "deprovision" /\ "StartGatewayError" \in call[u].after
NoRollback ==
    \A t \in ProvisionCalls :
        /\ call[t].teardown = 0
        /\ FailedStart(t) =>
               /\ call[t].flag = 1
               /\ DOMAIN bound_nodes = GatewaySet(topology)

C18_Claimed ==
    /\ NoRollback
    /\ \A u \in DeprovisionCalls :
           (AfterFailedStart(u) /\ Returned(u)) => call[u].teardown = 1

\* C18, the part that holds: no rollback by provision, the flag is cleared by
\* no step but the last of a deprovision call, and a deprovision call made
\* after a failed start invokes the teardown once unless its log pull raised.
OnlyDeprovisionClears ==
    (provisioned /\ ~provisioned') => \E u \in DeprovisionCalls : pc[u] = "d_flag" /\ pc'[u] = "ret"

C18_NoRollback ==
    /\ [](NoRollback)
    /\ [](\A u \in DeprovisionCalls :
             (AfterFailedStart(u) /\ Returned(u) /\ call[u].outcome # "LogPullError") =>
                 call[u].teardown = 1)
    /\ [][OnlyDeprovisionClears]_vars

\* C18: the state in which the part that holds is exercised: after a start
\* failure of the other thread's provision call, a deprovision has torn the
\* fleet down and cleared the flag
C18_TornDownLater ==
    \E t \in Threads, u \in Threads :
        /\ FailedStart(t) /\ AfterFailedStart(u) /\ call[u].sawProvisioned
        /\ Returned(u) /\ call[u].teardown = 1 /\ call[u].flag = 1 /\ ~provisioned

\* C19 as claimed: in debug mode a deprovision call pulls the logs once, as
\* the holder of the lock, before it waits on a tracker or tears down, and,
\* whatever the log pull did, the call has invoked the teardown once when it
\* is over and has cleared the flag unless the teardown raised.
LogsFirst(u) ==
    /\ pc[u] = "d_logs" => provisioning_lock = u
    /\ pc[u] \notin {"d_lock", "d_logs"} => call[u].logs = 1
    /\ call[u].logs = 0 => call[u].joined = <<>> /\ call[u].teardown = 0

C19_Claimed ==
    debug =>
        \A u \in DeprovisionCalls :
            /\ LogsFirst(u)
            /\ Returned(u) =>
                   /\ call[u].teardown = 1
                   /\ call[u].outcome # "TeardownError" => call[u].flag = 1

\* C19, the part that holds: the log pull comes first, under the lock, and
\* when it returns normally the call goes on to the wait and the teardown.
C19_LogsFirst ==
    debug =>
        \A u \in DeprovisionCalls :
            /\ LogsFirst(u)
            /\ (Returned(u) /\ call[u].outcome # "LogPullError") =>
                   /\ call[u].teardown = 1
                   /\ call[u].outcome # "TeardownError" => call[u].flag = 1

\* C20: no call that is over, however it ended, holds the lock; the lock is
\* held only by a thread inside a critical section; a provision call that
\* failed in the provisioner or in binding has not set the flag, which is
\* still not set; and a call waiting for the lock can take it whenever no
\* thread is inside a critical section.
C20_LockReleased ==
    /\ \A t \in Threads : pc[t] \in {"idle", "ret"} => provisioning_lock # t
    /\ provisioning_lock # NoThread => provisioning_lock \in InCriticalSection
    /\ \A t \in ProvisionCalls :
           call[t].outcome \in {"ProvisionerError", "IndexError"} =>
               call[t].flag = 0 /\ ~provisioned
    /\ \A t \in Threads :
           InCriticalSection = {} =>
               /\ pc[t] = "p_lock" => ENABLED P_Acquire(t)
               /\ pc[t] = "d_lock" => ENABLED D_Acquire(t)

\* C20 witness: a deprovision call that was interrupted in its wait and whose
\* teardown then failed is over, and the lock is free
C20_Witness ==
    \E t \in DeprovisionCalls :
        /\ Returned(t) /\ call[t].interrupted /\ call[t].outcome = "TeardownError"
        /\ provisioning_lock = NoThread

\* C20 witnesses of the other exit paths: the call is over and the lock free
C20_EarlyReturn ==
    \E t \in ProvisionCalls :
        Returned(t) /\ call[t].sawProvisioned /\ provisioning_lock = NoThread
C20_ProvisionerError ==
    \E t \in ProvisionCalls :
        Returned(t) /\ call[t].outcome = "ProvisionerError" /\ provisioning_lock = NoThread
C20_BindUnderflow ==
    \E t \in ProvisionCalls :
        Returned(t) /\ call[t].outcome = "IndexError" /\ provisioning_lock = NoThread
C20_LogPullError ==
    \E t \in DeprovisionCalls :
        Returned(t) /\ call[t].outcome = "LogPullError" /\ provisioning_lock = NoThread
C20_Interrupted ==
    \E t \in DeprovisionCalls :
        Returned(t) /\ call[t].outcome = "KeyboardInterrupt" /\ provisioning_lock = NoThread

====
